---- MODULE Spec2Model ----
(***************************************************************************)
(* Nearby Stays Finder (src/app.py): the search round trip of main() --     *)
(* credential check, Gemini client configuration, prompt construction, one *)
(* backend call, response parsing and rendering -- and the pure functions  *)
(* generate_stays_prompt and parse_stays_response.                         *)
(*                                                                         *)
(* Text is a sequence of one-character strings.  Decoded JSON values are   *)
(* records [t |-> tag, v |-> payload].                                     *)
(***************************************************************************)
EXTENDS Naturals, Sequences, FiniteSets

\* ------------------------------------------------------------------ bounds

\* Longest response text, in fragments of Fragments.
MaxFrags == 3

\* Longest text of edge pieces handed to parse_stays_response alone.
MaxEdge == 5

\* Longest location typed into the text field, in characters of LocChars.
MaxLocLen == 3

\* ------------------------------------------------------------ text helpers

\* The backtick character (the lexer of TLA+ refuses it inside a string).
BT == "backtick"

\* The first literal of line 103: three backticks and json.
FenceJson == <<BT, BT, BT, "j", "s", "o", "n">>

\* The second literal of line 103: three backticks.
Fence == <<BT, BT, BT>>

\* s[i:i+len(p)] == p
MatchAt(s, p, i) ==
    /\ i + Len(p) - 1 <= Len(s)
    /\ SubSeq(s, i, i + Len(p) - 1) = p

\* p in s
Contains(s, p) == \E i \in 1..(Len(s) + 1) : MatchAt(s, p, i)


\* s.find(p, i): where p first stands at or after i, or 0.
Find(s, p, i) ==
    LET at == {j \in i..Len(s) : MatchAt(s, p, j)}
    IN  IF at = {} THEN 0 ELSE CHOOSE j \in at : \A k \in at : j <= k

RECURSIVE ReplaceFrom(_, _, _)
\* str.replace(old, "") from index i on: leftmost, non-overlapping occurrences.
ReplaceFrom(s, old, i) ==
    LET j == Find(s, old, i)
    IN  IF j = 0 THEN SubSeq(s, i, Len(s))
        ELSE SubSeq(s, i, j - 1) \o ReplaceFrom(s, old, j + Len(old))

\* s.replace(old, "") for a non-empty old.
Replace(s, old) == ReplaceFrom(s, old, 1)

RECURSIVE CountFrom(_, _, _)
\* s.count(p) from index i on: leftmost, non-overlapping occurrences.
CountFrom(s, p, i) ==
    LET j == Find(s, p, i)
    IN  IF j = 0 THEN 0 ELSE 1 + CountFrom(s, p, j + Len(p))

\* s.count(p)
Count(s, p) == CountFrom(s, p, 1)

\* The whitespace of the model's alphabet (str.strip() and the JSON scanner
\* agree on these four).
IsWs(c) == c \in {" ", "\t", "\n", "\r"}

RECURSIVE LStrip(_)
LStrip(s) == IF s # <<>> /\ IsWs(Head(s)) THEN LStrip(Tail(s)) ELSE s

RECURSIVE RStrip(_)
RStrip(s) ==
    IF s # <<>> /\ IsWs(s[Len(s)]) THEN RStrip(SubSeq(s, 1, Len(s) - 1)) ELSE s

\* str.strip()
Strip(s) == RStrip(LStrip(s))

DigitChars == {"0", "1", "2", "3", "4", "5", "6", "7", "8", "9"}

DigitVal(c) ==
    CASE c = "0" -> 0 [] c = "1" -> 1 [] c = "2" -> 2 [] c = "3" -> 3
      [] c = "4" -> 4 [] c = "5" -> 5 [] c = "6" -> 6 [] c = "7" -> 7
      [] c = "8" -> 8 [] c = "9" -> 9

DigitChar(d) == <<"0", "1", "2", "3", "4", "5", "6", "7", "8", "9">>[d + 1]

RECURSIVE IntToStr(_)
\* str(n) of a non-negative int, as the f-strings of lines 66 and 111 format it.
IntToStr(n) ==
    IF n < 10 THEN <<DigitChar(n)>>
    ELSE IntToStr(n \div 10) \o <<DigitChar(n % 10)>>

\* ------------------------------------------------- generate_stays_prompt

PromptPart0 ==
  <<
    "\n", " ", " ", " ", " ", "A", "c", "t", " ", "a", "s", " ", "a", " ", "t", "r",
    "a", "v", "e", "l", " ", "s", "p", "e", "c", "i", "a", "l", "i", "s", "t", ".",
    " ", "F", "i", "n", "d", " " >>

PromptPart1 ==
  <<
    " ", "a", "c", "c", "o", "m", "m", "o", "d", "a", "t", "i", "o", "n", " ", "o",
    "p", "t", "i", "o", "n", "s", " ", "a", "r", "o", "u", "n", "d", " ", "\"" >>

PromptPart2 ==
    <<"\"", " ", "w", "i", "t", "h", "i", "n", " ">>

PromptPart3 ==
  <<
    " ", "k", "m", ".", "\n", " ", " ", " ", " ", "\n", " ", " ", " ", " ", "S", "t",
    "r", "i", "c", "t", "l", "y", " ", "r", "e", "t", "u", "r", "n", " ", "a", " ",
    "J", "S", "O", "N", " ", "a", "r", "r", "a", "y", " ", "o", "f", " ", "o", "b",
    "j", "e", "c", "t", "s", ".", " ", "D", "o", " ", "n", "o", "t", " ", "i", "n",
    "c", "l", "u", "d", "e", " ", "m", "a", "r", "k", "d", "o", "w", "n", " ", "f",
    "o", "r", "m", "a", "t", "t", "i", "n", "g", " ", "l", "i", "k", "e", " ", BT,
    BT, BT, "j", "s", "o", "n", " ", ".", ".", ".", " ", BT, BT, BT, ".", "\n",
    " ", " ", " ", " ", "\n", " ", " ", " ", " ", "E", "a", "c", "h", " ", "o", "b",
    "j", "e", "c", "t", " ", "m", "u", "s", "t", " ", "h", "a", "v", "e", ":", "\n",
    " ", " ", " ", " ", "-", " ", "\"", "n", "a", "m", "e", "\"", ":", " ", "s", "t",
    "r", "i", "n", "g", "\n", " ", " ", " ", " ", "-", " ", "\"", "t", "y", "p", "e",
    "\"", ":", " ", "s", "t", "r", "i", "n", "g", " ", "(", "e", ".", "g", ".", " ",
    "H", "o", "t", "e", "l", ",", " ", "H", "o", "s", "t", "e", "l", ",", " ", "R",
    "e", "s", "o", "r", "t", ")", "\n", " ", " ", " ", " ", "-", " ", "\"", "d", "i",
    "s", "t", "a", "n", "c", "e", "_", "k", "m", "\"", ":", " ", "n", "u", "m", "b",
    "e", "r", " ", "(", "e", "s", "t", "i", "m", "a", "t", "e", "d", ")", "\n", " ",
    " ", " ", " ", "-", " ", "\"", "p", "r", "i", "c", "e", "_", "r", "a", "n", "g",
    "e", "\"", ":", " ", "s", "t", "r", "i", "n", "g", " ", "(", "e", ".", "g", ".",
    " ", "\"", "$", "\"", ",", " ", "\"", "$", "$", "\"", ",", " ", "\"", "$", "$", "$",
    "\"", ")", "\n", " ", " ", " ", " ", "-", " ", "\"", "r", "a", "t", "i", "n", "g",
    "\"", ":", " ", "n", "u", "m", "b", "e", "r", " ", "(", "0", "-", "5", ")", "\n",
    " ", " ", " ", " ", "-", " ", "\"", "a", "m", "e", "n", "i", "t", "i", "e", "s",
    "\"", ":", " ", "l", "i", "s", "t", " ", "o", "f", " ", "s", "t", "r", "i", "n",
    "g", "s", " ", "(", "m", "a", "x", " ", "5", " ", "i", "t", "e", "m", "s", ")",
    "\n", " ", " ", " ", " ", "-", " ", "\"", "d", "e", "s", "c", "r", "i", "p", "t",
    "i", "o", "n", "\"", ":", " ", "s", "t", "r", "i", "n", "g", " ", "(", "s", "h",
    "o", "r", "t", " ", "m", "a", "r", "k", "e", "t", "i", "n", "g", " ", "b", "l",
    "u", "r", "b", ")", "\n", " ", " ", " ", " " >>

\* generate_stays_prompt with the radius placeholder left out of the template.
GenerateStaysPromptNoRadius(location, radius, max_results) ==
    PromptPart0 \o IntToStr(max_results) \o PromptPart1 \o location
        \o PromptPart2 \o PromptPart3

\* The f-string of lines 65-78: the template with {max_results}, {location}
\* and {radius} filled in, in that order.
GenerateStaysPrompt(location, radius, max_results) ==
    PromptPart0 \o IntToStr(max_results) \o PromptPart1 \o location
        \o PromptPart2 \o IntToStr(radius) \o PromptPart3

\* ------------------------------------------------------- json.loads (line 104)
\* The decoder over the model's alphabet.  Outside that alphabet, and so not
\* modelled: backslash escapes, a sign, NaN and Infinity.

Null == [t |-> "null", v |-> <<>>]
JTrue == [t |-> "bool", v |-> <<"true">>]
JFalse == [t |-> "bool", v |-> <<"false">>]
Num(lexeme) == [t |-> "num", v |-> lexeme]
Str(chars) == [t |-> "str", v |-> chars]
Arr(items) == [t |-> "arr", v |-> items]
Obj(pairs) == [t |-> "obj", v |-> pairs]

\* A scan that raised JSONDecodeError.
Fail == [ok |-> FALSE, val |-> Null, next |-> 0]
Ok(val, next) == [ok |-> TRUE, val |-> val, next |-> next]

RECURSIVE SkipWs(_, _)
\* WHITESPACE.match(s, i).end()
SkipWs(s, i) == IF i <= Len(s) /\ IsWs(s[i]) THEN SkipWs(s, i + 1) ELSE i

RECURSIVE StringEnd(_, _)
\* The index of the quote closing a string whose content starts at i, or 0:
\* the text ends first, or a control character stands inside (strict mode).
StringEnd(s, i) ==
    IF i > Len(s) THEN 0
    ELSE IF s[i] = "\"" THEN i
    ELSE IF s[i] \in {"\n", "\t", "\r"} THEN 0
    ELSE StringEnd(s, i + 1)

RECURSIVE DigitsEnd(_, _)
\* The first index at or after i that holds no digit.
DigitsEnd(s, i) ==
    IF i <= Len(s) /\ s[i] \in DigitChars THEN DigitsEnd(s, i + 1) ELSE i

\* NUMBER_RE.match(s, i).end() for s[i] a digit: (0|[1-9][0-9]*), then
\* (\.[0-9]+)? and ([eE][0-9]+)?, each taken only when it matches whole.
NumberEnd(s, i) ==
    LET a == IF s[i] = "0" THEN i + 1 ELSE DigitsEnd(s, i)
        b == IF a + 1 <= Len(s) /\ s[a] = "." /\ s[a + 1] \in DigitChars
             THEN DigitsEnd(s, a + 1) ELSE a
        c == IF b + 1 <= Len(s) /\ s[b] \in {"e", "E"} /\ s[b + 1] \in DigitChars
             THEN DigitsEnd(s, b + 1) ELSE b
    IN  c

\* dict[key] = val: a repeated key keeps its place and takes the new value.
Put(pairs, key, val) ==
    IF \E i \in 1..Len(pairs) : pairs[i].k = key
    THEN [i \in 1..Len(pairs) |->
            IF pairs[i].k = key THEN [k |-> key, val |-> val] ELSE pairs[i]]
    ELSE Append(pairs, [k |-> key, val |-> val])

RECURSIVE ScanOnce(_, _)
RECURSIVE ArrayItems(_, _, _)
RECURSIVE ObjectItems(_, _, _)

\* JSONArray's loop; i is where the next element must start.
ArrayItems(s, i, acc) ==
    LET r == ScanOnce(s, i)
        j == SkipWs(s, r.next)
    IN  IF ~r.ok THEN Fail
        ELSE IF j > Len(s) THEN Fail
        ELSE IF s[j] = "]" THEN Ok(Arr(Append(acc, r.val)), j + 1)
        ELSE IF s[j] = "," THEN ArrayItems(s, SkipWs(s, j + 1), Append(acc, r.val))
        ELSE Fail

\* JSONObject's loop; i is where the next key's opening quote must stand.
ObjectItems(s, i, acc) ==
    IF i > Len(s) \/ s[i] # "\"" THEN Fail
    ELSE
      LET e == StringEnd(s, i + 1)
          c == SkipWs(s, e + 1)
          r == ScanOnce(s, SkipWs(s, c + 1))
          j == SkipWs(s, r.next)
          now == Put(acc, SubSeq(s, i + 1, e - 1), r.val)
      IN  IF e = 0 THEN Fail
          ELSE IF c > Len(s) \/ s[c] # ":" THEN Fail
          ELSE IF ~r.ok THEN Fail
          ELSE IF j > Len(s) THEN Fail
          ELSE IF s[j] = "}" THEN Ok(Obj(now), j + 1)
          ELSE IF s[j] = "," THEN ObjectItems(s, SkipWs(s, j + 1), now)
          ELSE Fail

\* scan_once(s, i): one JSON value starting exactly at i.
ScanOnce(s, i) ==
    IF i > Len(s) THEN Fail
    ELSE IF s[i] = "\"" THEN
        LET e == StringEnd(s, i + 1)
        IN  IF e = 0 THEN Fail ELSE Ok(Str(SubSeq(s, i + 1, e - 1)), e + 1)
    ELSE IF s[i] = "{" THEN
        LET j == SkipWs(s, i + 1)
        IN  IF j <= Len(s) /\ s[j] = "}" THEN Ok(Obj(<<>>), j + 1)
            ELSE ObjectItems(s, j, <<>>)
    ELSE IF s[i] = "[" THEN
        LET j == SkipWs(s, i + 1)
        IN  IF j <= Len(s) /\ s[j] = "]" THEN Ok(Arr(<<>>), j + 1)
            ELSE ArrayItems(s, j, <<>>)
    ELSE IF MatchAt(s, <<"n", "u", "l", "l">>, i) THEN Ok(Null, i + 4)
    ELSE IF MatchAt(s, <<"t", "r", "u", "e">>, i) THEN Ok(JTrue, i + 4)
    ELSE IF MatchAt(s, <<"f", "a", "l", "s", "e">>, i) THEN Ok(JFalse, i + 5)
    ELSE IF s[i] \in DigitChars THEN
        LET e == NumberEnd(s, i) IN Ok(Num(SubSeq(s, i, e - 1)), e)
    ELSE Fail

\* json.loads(s): one value, whitespace allowed around it, nothing after it.
Decode(s) ==
    LET r == ScanOnce(s, SkipWs(s, 1))
    IN  IF r.ok /\ SkipWs(s, r.next) = Len(s) + 1 THEN r ELSE Fail

\* ------------------------------------------------------ Python value helpers

\* The digits of a number's lexeme before its exponent, the point included.
Mantissa(lex) ==
    IF \E i \in 1..Len(lex) : lex[i] \in {"e", "E"}
    THEN SubSeq(lex, 1, (CHOOSE i \in 1..Len(lex) :
                            /\ lex[i] \in {"e", "E"}
                            /\ \A j \in 1..(i - 1) : lex[j] \notin {"e", "E"}) - 1)
    ELSE lex

\* The digits of a number's lexeme after its e, or <<>>.
Exponent(lex) == SubSeq(lex, Len(Mantissa(lex)) + 2, Len(lex))

\* A lexeme with a point or an exponent decodes to a float, any other to an int.
IsFloat(lex) == \E i \in 1..Len(lex) : lex[i] \in {".", "e", "E"}

RECURSIVE StripZeros(_)
StripZeros(ds) == IF ds # <<>> /\ Head(ds) = "0" THEN StripZeros(Tail(ds)) ELSE ds

RECURSIVE DigitsValue(_)
DigitsValue(ds) ==
    IF ds = <<>> THEN 0 ELSE 10 * DigitsValue(SubSeq(ds, 1, Len(ds) - 1)) + DigitVal(ds[Len(ds)])

\* The leading digits of the smallest decimal that float() rounds to inf,
\* 1.7976931348623158079e308.
InfDigits ==
    <<"1", "7", "9", "7", "6", "9", "3", "1", "3", "4", "8", "6", "2", "3", "1", "5", "8", "0", "7", "9">>

RECURSIVE DigitsGE(_, _, _)
\* Whether the decimal fraction 0.a is at least 0.b, compared from digit i on.
DigitsGE(a, b, i) ==
    IF i > Len(b) THEN TRUE
    ELSE LET x == IF i <= Len(a) THEN DigitVal(a[i]) ELSE 0
             y == DigitVal(b[i])
         IN  IF x > y THEN TRUE ELSE IF x < y THEN FALSE ELSE DigitsGE(a, b, i + 1)

\* A number's lexeme as 0.sig * 10^sci, sig without leading zeros (<<>> for
\* zero).  An exponent of more than four digits is taken as 10000.
Scientific(lex) ==
    LET m == Mantissa(lex)
        point == IF \E i \in 1..Len(m) : m[i] = "."
                 THEN CHOOSE i \in 1..Len(m) : m[i] = "." ELSE Len(m) + 1
        digits == SubSeq(m, 1, point - 1) \o SubSeq(m, point + 1, Len(m))
        sig == StripZeros(digits)
        e == StripZeros(Exponent(lex))
        exp == IF Len(e) > 4 THEN 10000 ELSE DigitsValue(e)
    IN  [sig |-> sig, sci |-> (point - 1) + exp - (Len(digits) - Len(sig))]

\* Whether float(lex) is inf.
IsInf(lex) ==
    LET s == Scientific(lex)
    IN  /\ IsFloat(lex)
        /\ s.sig # <<>>
        /\ \/ s.sci > 309
           \/ s.sci = 309 /\ DigitsGE(s.sig, InfDigits, 1)

\* bool(v), as the if statements of lines 129, 166 and 168 take it.
Truthy(v) ==
    CASE v.t = "null" -> FALSE
      [] v.t = "bool" -> v = JTrue
      [] v.t = "num" -> \E i \in 1..Len(Mantissa(v.v)) : Mantissa(v.v)[i] \notin {"0", "."}
      [] OTHER -> v.v # <<>>

\* Whether int(v) raises (line 123): TypeError for None, a list or a dict,
\* ValueError for a string that is no integer literal, OverflowError for inf.
IntRaises(v) ==
    CASE v.t \in {"null", "arr", "obj"} -> TRUE
      [] v.t = "bool" -> FALSE
      [] v.t = "num" -> IsInf(v.v)
      [] v.t = "str" ->
            LET s == Strip(v.v)
            IN  s = <<>> \/ \E i \in 1..Len(s) : s[i] \notin DigitChars

\* The number of decimal digits of int(v), for a v that int() accepts.
IntDigits(v) ==
    CASE v.t = "bool" -> 1
      [] v.t = "str" -> Len(StripZeros(Strip(v.v)))
      [] v.t = "num" ->
            LET s == Scientific(v.v)
            IN  IF s.sig = <<>> \/ s.sci < 0 THEN 0 ELSE s.sci

\* Whether the star string of line 123 raises: OverflowError for a count above
\* sys.maxsize, MemoryError for a string no machine holds.  Counts of 10^12 and
\* more are taken to raise, smaller ones to fit in memory.
StarsRaise(v) == IntDigits(v) > 12

\* Whether sep.join(v) raises TypeError (line 130): v is not iterable, or an
\* element is no string.  A string yields its characters, a dict its keys.
JoinRaises(v) ==
    CASE v.t \in {"null", "bool", "num"} -> TRUE
      [] v.t = "arr" -> \E i \in 1..Len(v.v) : v.v[i].t # "str"
      [] OTHER -> FALSE

\* dict.get(key, default)
Get(stay, key, default) ==
    IF \E i \in 1..Len(stay.v) : stay.v[i].k = key
    THEN stay.v[CHOOSE i \in 1..Len(stay.v) : stay.v[i].k = key].val
    ELSE default

RatingKey == <<"r", "a", "t", "i", "n", "g">>
AmenitiesKey == <<"a", "m", "e", "n", "i", "t", "i", "e", "s">>

\* ----------------------------------------------------- parse_stays_response

\* Line 103 with only its first replace.
CleanTextJsonFenceOnly(response_text) == Strip(Replace(response_text, FenceJson))

\* Line 103: every occurrence of the two fence literals is removed, wherever it
\* stands, and the rest is stripped.
CleanText(response_text) ==
    Strip(Replace(Replace(response_text, FenceJson), Fence))

\* Lines 97-107.  ret is the value returned, failed whether JSONDecodeError was
\* caught (line 106 then shows the error and line 107 returns []), clean the
\* text handed to json.loads.
ParseStaysResponse(response_text) ==
    LET clean == CleanText(response_text)
        d == Decode(clean)
    IN  IF d.ok THEN [ret |-> d.val, failed |-> FALSE, clean |-> clean]
        ELSE [ret |-> Arr(<<>>), failed |-> TRUE, clean |-> clean]

\* ------------------------------------------------------------ display_stays

\* What the for loop of line 113 iterates over: a list's elements, a string's
\* characters, a dict's keys.
Iterate(stays) ==
    CASE stays.t = "arr" -> stays.v
      [] stays.t = "str" -> [i \in 1..Len(stays.v) |-> Str(<<stays.v[i]>>)]
      [] stays.t = "obj" -> [i \in 1..Len(stays.v) |-> Str(stays.v[i].k)]

\* Whether lines 114-137 raise for one element: AttributeError at stay.get of
\* an element that is no dict, int(rating) or the star string at line 123, join
\* at line 130.  The
\* Streamlit calls themselves are taken not to raise.
CardRaises(stay) ==
    \/ stay.t # "obj"
    \/ LET rating == Get(stay, RatingKey, Num(<<"0">>))
       IN  IntRaises(rating) \/ StarsRaise(rating)
    \/ LET amenities == Get(stay, AmenitiesKey, Arr(<<>>))
       IN  Truthy(amenities) /\ JoinRaises(amenities)

\* Lines 109-137 for a truthy argument: whether the banner of line 111 is shown
\* (len raises TypeError for a number or a boolean), how many cards are rendered
\* whole, and whether an exception leaves the function.
DisplayStays(stays) ==
    IF stays.t \in {"null", "bool", "num"}
    THEN [banner |-> FALSE, cards |-> 0, raised |-> TRUE]
    ELSE LET items == Iterate(stays)
             bad == {i \in 1..Len(items) : CardRaises(items[i])}
         IN  IF bad = {}
             THEN [banner |-> TRUE, cards |-> Len(items), raised |-> FALSE]
             ELSE [banner |-> TRUE,
                   cards |-> (CHOOSE i \in bad : \A j \in bad : i <= j) - 1,
                   raised |-> TRUE]

\* ------------------------------------------------------------ configuration

\* Line 20: the default of DEFAULT_RADIUS.
DEFAULT_RADIUS == 10

\* Line 21: the default of DEFAULT_MAX_RESULTS.
DEFAULT_MAX_RESULTS == 8

\* Line 22: the default of DEFAULT_LOCATION.
DEFAULT_LOCATION == <<"N", "e", "w", " ", "Y", "o", "r", "k">>

\* Line 42: the radius slider's range.
RadiusMin == 1
RadiusMax == 50

\* Line 43: the max-results slider's range.
MaxResultsMin == 1
MaxResultsMax == 20

\* os.getenv('GEMINI_API_KEY') (line 19): None, or the variable's text.
None == [some |-> FALSE, text |-> <<>>]
Some(text) == [some |-> TRUE, text |-> text]
KeyValues == {None, Some(<<>>), Some(<<"k">>)}

\* ------------------------------------------------------------------- inputs

FragOpenRecord ==
    <<"[", "{", "\"", "n", "a", "m", "e", "\"", ":", "\"", "a">>
FragCloseRecord == <<"\"", "}", "]">>
FragBadRating ==
    <<"[", "{", "\"", "r", "a", "t", "i", "n", "g", "\"", ":", "n", "u", "l", "l", "}", "]">>
FragObject ==
    <<"{", "\"", "n", "a", "m", "e", "\"", ":", "\"", "a", "\"", "}">>

\* The pieces response texts are put together from.
Fragments ==
    { FenceJson, Fence, <<"[">>, <<"]">>, FragOpenRecord, FragCloseRecord,
      FragBadRating, FragObject, <<"5">>, <<"0">>, <<"\n">> }

RECURSIVE TextsOf(_, _)
\* The texts of at most n pieces.
TextsOf(pieces, n) ==
    IF n = 0 THEN {<<>>}
    ELSE LET shorter == TextsOf(pieces, n - 1)
         IN  shorter \cup {t \o f : t \in shorter, f \in pieces}

\* What response.text can be (line 92).
ResponseTexts == TextsOf(Fragments, MaxFrags)

\* Pieces that put backticks and the word json next to the wrapper's own.
EdgePieces == { <<BT>>, <<"j", "s", "o", "n">>, <<"[", "]">>, <<"\n">> }

\* The texts parse_stays_response is applied to on its own.
ParseTexts == ResponseTexts \cup TextsOf(EdgePieces, MaxEdge)

\* What the location field can hold in a run of main; the empty field included.
MainLocations == {<<>>, DEFAULT_LOCATION}

\* The characters locations are typed from when the prompt is built alone.
LocChars == {<<"a">>, <<BT>>}
PromptLocations == TextsOf(LocChars, MaxLocLen) \ {<<>>}

\* ---------------------------------------------------------------- the state

VARIABLES
    GEMINI_API_KEY,  \* line 19, read once when the process starts
    pc,              \* where the run of main stands
    search_clicked,  \* line 151
    location,        \* line 144
    radius,          \* line 42
    max_results,     \* line 43
    model,           \* line 159: whether configure_gemini returned a model
    prompt,          \* line 163
    backend,         \* how the call of line 86 ended: "none", "returned", "raised"
    raw_response,    \* line 164
    stays_data,      \* line 167
    parse_failed,    \* whether line 105 caught JSONDecodeError
    notices,         \* the st.error/warning/success/info messages of main, in order
    sidebar,         \* the key status shown by lines 33-37
    calls,           \* model.generate_content calls of this run
    renders,         \* display_stays calls of this run
    cards,           \* cards display_stays rendered whole
    crashed,         \* an exception left main
    fn_in,           \* the argument of a function applied alone
    fn_out           \* its result

vars ==
    << GEMINI_API_KEY, pc, search_clicked, location, radius, max_results, model,
       prompt, backend, raw_response, stays_data, parse_failed, notices, sidebar,
       calls, renders, cards, crashed, fn_in, fn_out >>

run_vars ==
    << model, prompt, backend, raw_response, stays_data, parse_failed, calls,
       renders, cards, crashed >>

input_vars == << search_clicked, location, radius, max_results >>

fn_vars == << fn_in, fn_out >>

\* stays_data before line 167 assigns it.
Unset == [t |-> "unset", v |-> <<>>]

\* Lines 33-37.
Sidebar(key) ==
    IF key.some /\ key.text # <<>> THEN <<"success: API key loaded">>
    ELSE <<"error: API key missing", "info: add GEMINI_API_KEY">>

\* The state a script run starts from: nothing configured, sent, parsed or shown.
FreshRun ==
    /\ model = FALSE
    /\ prompt = None
    /\ backend = "none"
    /\ raw_response = None
    /\ stays_data = Unset
    /\ parse_failed = FALSE
    /\ calls = 0
    /\ renders = 0
    /\ cards = 0
    /\ crashed = FALSE

NoFn == [fn |-> "none"]

Init ==
    /\ GEMINI_API_KEY \in KeyValues
    /\ pc = "idle"
    /\ search_clicked = FALSE
    /\ location = DEFAULT_LOCATION
    /\ radius = DEFAULT_RADIUS
    /\ max_results = DEFAULT_MAX_RESULTS
    /\ notices = <<>>
    /\ sidebar = Sidebar(GEMINI_API_KEY)
    /\ FreshRun
    /\ fn_in = NoFn
    /\ fn_out = NoFn

\* ------------------------------------------------------------------ main

\* Line 154 comparing the key with None only.
MainKeyMissingNoneOnly(key) == ~key.some

\* not GEMINI_API_KEY (line 154): None and the empty string are both falsy.
MainKeyMissing(key) == ~key.some \/ key.text = <<>>

\* not GEMINI_API_KEY (line 52).
ConfigureKeyMissing(key) == ~key.some \/ key.text = <<>>

\* if raw_response (line 166): None and the empty string are both falsy.
RawTruthy(raw) == raw.some /\ raw.text # <<>>

\* Line 168 taken as always true.
StaysTruthyAlways(stays) == TRUE

\* if stays_data (line 168).
StaysTruthy(stays) == Truthy(stays)

\* A script run (Streamlit runs the script anew on every interaction): the
\* widgets of lines 42-43 and 144-151 are read and line 153 or 173 decides.
Main ==
    /\ pc \in {"idle", "done"}
    /\ \E loc \in MainLocations, clicked \in BOOLEAN,
          rad \in {RadiusMin, DEFAULT_RADIUS}, maxr \in {DEFAULT_MAX_RESULTS, MaxResultsMax} :
        /\ location' = loc
        /\ search_clicked' = clicked
        /\ radius' = rad
        /\ max_results' = maxr
        /\ pc' = IF clicked /\ loc # <<>> THEN "check_key" ELSE "done"
        /\ notices' = IF ~(clicked /\ loc # <<>>) /\ loc = <<>>
                      THEN <<"info: try searching for">> ELSE <<>>
    /\ sidebar' = Sidebar(GEMINI_API_KEY)
    /\ model' = FALSE
    /\ prompt' = None
    /\ backend' = "none"
    /\ raw_response' = None
    /\ stays_data' = Unset
    /\ parse_failed' = FALSE
    /\ calls' = 0
    /\ renders' = 0
    /\ cards' = 0
    /\ crashed' = FALSE
    /\ UNCHANGED << GEMINI_API_KEY, fn_vars >>

\* Lines 154-156.
CheckKey ==
    /\ pc = "check_key"
    /\ IF MainKeyMissing(GEMINI_API_KEY)
       THEN /\ notices' = Append(notices, "error: API key missing")
            /\ pc' = "done"
       ELSE /\ notices' = notices
            /\ pc' = "configure"
    /\ UNCHANGED << GEMINI_API_KEY, input_vars, sidebar, run_vars, fn_vars >>

\* Lines 159-161 with configure_gemini (lines 50-61): genai.configure or the
\* GenerativeModel constructor may raise, which lines 59-61 catch.
ConfigureGemini ==
    /\ pc = "configure"
    /\ \E raises \in BOOLEAN :
        IF ConfigureKeyMissing(GEMINI_API_KEY)
        THEN /\ notices' = Append(notices, "error: API key not configured")
             /\ model' = FALSE
             /\ pc' = "done"
        ELSE IF raises
        THEN /\ notices' = Append(notices, "error: configuring Gemini")
             /\ model' = FALSE
             /\ pc' = "done"
        ELSE /\ notices' = notices
             /\ model' = TRUE
             /\ pc' = "build_prompt"
    /\ UNCHANGED << GEMINI_API_KEY, input_vars, sidebar, prompt, backend,
                    raw_response, stays_data, parse_failed, calls, renders, cards,
                    crashed, fn_vars >>

\* Line 163.
BuildPrompt ==
    /\ pc = "build_prompt"
    /\ prompt' = Some(GenerateStaysPrompt(location, radius, max_results))
    /\ pc' = "call"
    /\ UNCHANGED << GEMINI_API_KEY, input_vars, sidebar, notices, model, backend,
                    raw_response, stays_data, parse_failed, calls, renders, cards,
                    crashed, fn_vars >>

\* get_gemini_response calling the backend again after a failure.
GetGeminiResponseRetry ==
    /\ pc = "call"
    /\ \E raises \in BOOLEAN, text \in ResponseTexts :
        IF raises
        THEN /\ calls' = calls + 2
             /\ backend' = "raised"
             /\ raw_response' = None
             /\ notices' = Append(notices, "error: API Error")
        ELSE /\ calls' = calls + 1
             /\ backend' = "returned"
             /\ raw_response' = Some(text)
             /\ notices' = notices
    /\ pc' = "check_raw"
    /\ UNCHANGED << GEMINI_API_KEY, input_vars, sidebar, model, prompt, stays_data,
                    parse_failed, renders, cards, crashed, fn_vars >>

\* get_gemini_response without its try/except: the exception leaves main.
GetGeminiResponseUncaught ==
    /\ pc = "call"
    /\ calls' = calls + 1
    /\ \E raises \in BOOLEAN, text \in ResponseTexts :
        IF raises
        THEN /\ backend' = "raised"
             /\ raw_response' = None
             /\ crashed' = TRUE
             /\ pc' = "done"
        ELSE /\ backend' = "returned"
             /\ raw_response' = Some(text)
             /\ crashed' = crashed
             /\ pc' = "check_raw"
    /\ UNCHANGED << GEMINI_API_KEY, input_vars, sidebar, notices, model, prompt,
                    stays_data, parse_failed, renders, cards, fn_vars >>

\* Line 164 with get_gemini_response (lines 80-95): one generate_content call;
\* it returns a response whose text is returned (line 92), or it, or reading
\* response.text, raises an Exception, which lines 93-95 turn into a message
\* and None.
GetGeminiResponse ==
    /\ pc = "call"
    /\ calls' = calls + 1
    /\ \E raises \in BOOLEAN, text \in ResponseTexts :
        IF raises
        THEN /\ backend' = "raised"
             /\ raw_response' = None
             /\ notices' = Append(notices, "error: API Error")
        ELSE /\ backend' = "returned"
             /\ raw_response' = Some(text)
             /\ notices' = notices
    /\ pc' = "check_raw"
    /\ UNCHANGED << GEMINI_API_KEY, input_vars, sidebar, model, prompt, stays_data,
                    parse_failed, renders, cards, crashed, fn_vars >>

\* Line 166.
CheckRaw ==
    /\ pc = "check_raw"
    /\ pc' = IF RawTruthy(raw_response) THEN "parse" ELSE "done"
    /\ UNCHANGED << GEMINI_API_KEY, input_vars, sidebar, notices, run_vars, fn_vars >>

\* Line 167.
ParseResponse ==
    /\ pc = "parse"
    /\ LET r == ParseStaysResponse(raw_response.text)
       IN  /\ stays_data' = r.ret
           /\ parse_failed' = r.failed
           /\ notices' = IF r.failed
                         THEN Append(notices, "error: Failed to parse AI response")
                         ELSE notices
    /\ pc' = "check_stays"
    /\ UNCHANGED << GEMINI_API_KEY, input_vars, sidebar, model, prompt, backend,
                    raw_response, calls, renders, cards, crashed, fn_vars >>

\* Lines 168-171 with display_stays (lines 109-137).
ShowStays ==
    /\ pc = "check_stays"
    /\ IF StaysTruthy(stays_data)
       THEN LET d == DisplayStays(stays_data)
            IN  /\ renders' = renders + 1
                /\ cards' = d.cards
                /\ crashed' = d.raised
                /\ notices' = IF d.banner THEN Append(notices, "success: Found stays")
                              ELSE notices
       ELSE /\ notices' = Append(notices, "warning: No data returned")
            /\ UNCHANGED << renders, cards, crashed >>
    /\ pc' = "done"
    /\ UNCHANGED << GEMINI_API_KEY, input_vars, sidebar, model, prompt, backend,
                    raw_response, stays_data, parse_failed, calls, fn_vars >>

Next ==
    \/ Main
    \/ CheckKey
    \/ ConfigureGemini
    \/ BuildPrompt
    \/ GetGeminiResponse
    \/ CheckRaw
    \/ ParseResponse
    \/ ShowStays

Spec == Init /\ [][Next]_vars

\* ----------------------------------------- generate_stays_prompt on its own

\* The valid arguments: a non-empty location, a radius and a count within the
\* sliders' ranges.
PromptInit ==
    /\ GEMINI_API_KEY = Some(<<"k">>)
    /\ pc = "prompt_args"
    /\ search_clicked = FALSE
    /\ location = DEFAULT_LOCATION
    /\ radius = DEFAULT_RADIUS
    /\ max_results = DEFAULT_MAX_RESULTS
    /\ notices = <<>>
    /\ sidebar = Sidebar(GEMINI_API_KEY)
    /\ FreshRun
    /\ fn_in \in [location : PromptLocations,
                  radius : RadiusMin..RadiusMax,
                  max_results : MaxResultsMin..MaxResultsMax]
    /\ fn_out = NoFn

\* generate_stays_prompt(location, radius, max_results)
PromptCall ==
    /\ pc = "prompt_args"
    /\ fn_out' = [prompt |-> GenerateStaysPrompt(fn_in.location, fn_in.radius,
                                                  fn_in.max_results)]
    /\ pc' = "prompt_done"
    /\ UNCHANGED << GEMINI_API_KEY, input_vars, notices, sidebar, run_vars, fn_in >>

PromptNext == PromptCall

SpecPrompt == PromptInit /\ [][PromptNext]_vars

\* ------------------------------------------ parse_stays_response on its own

\* X between an opening json fence and a closing fence, set tight or on lines
\* of their own.
Wrap(x, lines) ==
    IF lines THEN FenceJson \o <<"\n">> \o x \o <<"\n">> \o Fence
    ELSE FenceJson \o x \o Fence

NoResult == [set |-> FALSE]
Result(r) == [set |-> TRUE, ret |-> r.ret, failed |-> r.failed, clean |-> r.clean]

ParseInit ==
    /\ GEMINI_API_KEY = Some(<<"k">>)
    /\ pc = "parse_args"
    /\ search_clicked = FALSE
    /\ location = DEFAULT_LOCATION
    /\ radius = DEFAULT_RADIUS
    /\ max_results = DEFAULT_MAX_RESULTS
    /\ notices = <<>>
    /\ sidebar = Sidebar(GEMINI_API_KEY)
    /\ FreshRun
    /\ fn_in \in [text : ParseTexts]
    /\ fn_out = [plain |-> NoResult, fenced |-> NoResult]

\* parse_stays_response(X)
ParsePlain ==
    /\ pc = "parse_args"
    /\ ~fn_out.plain.set
    /\ fn_out' = [fn_out EXCEPT !.plain = Result(ParseStaysResponse(fn_in.text))]
    /\ UNCHANGED << GEMINI_API_KEY, pc, input_vars, notices, sidebar, run_vars, fn_in >>

\* parse_stays_response(X wrapped in a markdown json fence)
ParseFenced ==
    /\ pc = "parse_args"
    /\ ~fn_out.fenced.set
    /\ \E lines \in BOOLEAN :
        fn_out' = [fn_out EXCEPT
                     !.fenced = Result(ParseStaysResponse(Wrap(fn_in.text, lines)))]
    /\ UNCHANGED << GEMINI_API_KEY, pc, input_vars, notices, sidebar, run_vars, fn_in >>

ParseNext ==
    \/ ParsePlain
    \/ ParseFenced

SpecParse == ParseInit /\ [][ParseNext]_vars

\* ------------------------------------------------------------------ claims

\* A search was triggered in this run: the button clicked, the location filled.
Triggered == search_clicked /\ location # <<>>

HasNotice(n) == \E i \in 1..Len(notices) : notices[i] = n

\* GEMINI_API_KEY is unset or empty.
CredentialMissing == ~GEMINI_API_KEY.some \/ GEMINI_API_KEY.text = <<>>

\* C1: with the API credential missing (unset or empty), no search ever
\* invokes the backend call: the run goes from the key check straight to its
\* end, reports the missing key there, and builds no model, sends no prompt
\* and renders no records.
C1_MissingKeyNeverCallsBackend ==
    CredentialMissing =>
        /\ pc \in {"idle", "check_key", "done"}
        /\ calls = 0
        /\ ~model
        /\ prompt = None
        /\ backend = "none"
        /\ renders = 0
        /\ (pc = "done" /\ Triggered) => notices = <<"error: API key missing">>

C1_Witness ==
    /\ GEMINI_API_KEY = Some(<<>>)
    /\ pc = "done"
    /\ Triggered
    /\ notices = <<"error: API key missing">>

\* C2: when the backend call raises, the search shows a backend error
\* message, display_stays is not called (no records are shown), and no
\* exception leaves main.
C2_BackendFailureIsReported ==
    backend = "raised" =>
        /\ HasNotice("error: API Error")
        /\ raw_response = None
        /\ renders = 0
        /\ cards = 0
        /\ ~crashed
        /\ pc \in {"check_raw", "done"}

C2_Witness ==
    /\ backend = "raised"
    /\ pc = "done"
    /\ notices = <<"error: API Error">>

\* C3: whatever text the backend returns, a triggered search never ends in an
\* uncaught exception.
C3_NoUncaughtException == ~crashed

\* A list all of whose elements are dicts.
IsRecordList(v) == v.t = "arr" /\ \A i \in 1..Len(v.v) : v.v[i].t = "obj"

\* C4: for every input text, parse_stays_response either returns a list of
\* records (possibly empty) or signals a parse failure; valid JSON whose top
\* level is no array is never returned as the result.
C4_ParseReturnsRecordsOrFails ==
    (pc = "parse_args" /\ fn_out.plain.set) =>
        \/ fn_out.plain.failed
        \/ IsRecordList(fn_out.plain.ret)

\* The prompt holds the location, the radius and the count.
PromptHoldsArguments ==
    /\ Contains(fn_out.prompt, fn_in.location)
    /\ Contains(fn_out.prompt, IntToStr(fn_in.radius))
    /\ Contains(fn_out.prompt, IntToStr(fn_in.max_results))

\* C5 as stated: for all valid arguments the prompt contains the location
\* verbatim, the radius and max_results, and never three consecutive backticks.
C5_PromptHasNoFence ==
    pc = "prompt_done" =>
        /\ PromptHoldsArguments
        /\ ~Contains(fn_out.prompt, Fence)

\* C5 as amended: for all valid arguments the prompt contains the location
\* verbatim, the radius and max_results; it always contains the code-fence
\* marker, exactly twice outside the location (the fixed sentence of line 68
\* quotes it as the formatting to avoid).
C5_PromptHoldsArgumentsAndQuotesFence ==
    pc = "prompt_done" =>
        /\ PromptHoldsArguments
        /\ Contains(fn_out.prompt, Fence)
        /\ Count(fn_out.prompt, Fence) = 2 + Count(fn_in.location, Fence)

C5_Witness ==
    /\ pc = "prompt_done"
    /\ fn_in.location = Fence
    /\ fn_in.radius = RadiusMax
    /\ fn_in.max_results = MaxResultsMax
    /\ Count(fn_out.prompt, Fence) = 3

\* C6: parsing X and parsing X wrapped in a markdown json fence give the same
\* outcome: the same decoded value, or a parse failure both times.
C6_ParseIgnoresWrapping ==
    (pc = "parse_args" /\ fn_out.plain.set /\ fn_out.fenced.set) =>
        /\ fn_out.fenced.failed = fn_out.plain.failed
        /\ fn_out.fenced.ret = fn_out.plain.ret

C6_Witness ==
    /\ pc = "parse_args"
    /\ fn_out.plain.set
    /\ fn_out.fenced.set
    /\ fn_in.text = FragOpenRecord \o FragCloseRecord
    /\ ~fn_out.fenced.failed
    /\ fn_out.fenced.ret = Arr(<<Obj(<<[k |-> <<"n", "a", "m", "e">>, val |-> Str(<<"a">>)]>>)>>)

\* C7: every search that passes the credential and configuration checks issues
\* exactly one generate_content call, whatever its outcome; none issues a
\* second call.
C7_ExactlyOneBackendCall ==
    calls = (IF model /\ pc \notin {"build_prompt", "call"} THEN 1 ELSE 0)

C7_Witness ==
    /\ pc = "done"
    /\ model
    /\ calls = 1
    /\ parse_failed

\* The text with a fence taken off its two ends only: a leading json fence, a
\* trailing fence, and the whitespace around them.
StripOuterFence(text) ==
    LET s == Strip(text)
        a == IF MatchAt(s, FenceJson, 1) THEN SubSeq(s, Len(FenceJson) + 1, Len(s)) ELSE s
        b == IF Len(a) >= Len(Fence) /\ MatchAt(a, Fence, Len(a) - Len(Fence) + 1)
             THEN SubSeq(a, 1, Len(a) - Len(Fence)) ELSE a
    IN  Strip(b)

RECURSIVE HasFenceInString(_)
\* Whether a string of the value (a key included) holds three backticks.
HasFenceInString(v) ==
    CASE v.t = "str" -> Contains(v.v, Fence)
      [] v.t = "arr" -> \E i \in 1..Len(v.v) : HasFenceInString(v.v[i])
      [] v.t = "obj" -> \E i \in 1..Len(v.v) :
                            Contains(v.v[i].k, Fence) \/ HasFenceInString(v.v[i].val)
      [] OTHER -> FALSE

\* C8: the fence-stripping step removes a fence marker only where it leads or
\* trails the response: when the JSON body holds the marker inside a string
\* value, the text handed to the decoder, and so the decoded strings, keep it.
C8_InnerFencesAreKept ==
    (pc = "parse_args" /\ fn_out.plain.set) =>
        LET body == StripOuterFence(fn_in.text)
            d == Decode(body)
        IN  (d.ok /\ HasFenceInString(d.val)) =>
                /\ fn_out.plain.clean = body
                /\ ~fn_out.plain.failed
                /\ fn_out.plain.ret = d.val

\* C9 as stated: a search whose response parses to a collection, possibly
\* empty, ends with exactly one display_stays call.
C9_OneRenderPerCompletedSearch ==
    (pc = "done" /\ backend = "returned" /\ ~parse_failed /\ stays_data.t = "arr") =>
        renders = 1

\* C9 as amended: a search whose response decodes to a non-empty (truthy)
\* value ends with exactly one display_stays call, issued after the backend
\* call and the parse step; a search that is pending, that ended in a
\* configuration, backend or parse error, or whose response decoded to an
\* empty collection has none.
C9_OneRenderPerNonEmptyResult ==
    /\ renders = (IF pc = "done" /\ stays_data # Unset /\ Truthy(stays_data) THEN 1 ELSE 0)
    /\ renders = 1 => (calls = 1 /\ backend = "returned" /\ ~parse_failed)

C9_Witness ==
    /\ pc = "done"
    /\ renders = 1
    /\ cards = 1
    /\ ~crashed
    /\ notices = <<"success: Found stays">>

\* C10: every triggered search that runs to its end has shown at least one
\* notice: the success banner, the no-data warning, or an error message.
C10_TriggeredSearchShowsNotice ==
    (pc = "done" /\ Triggered /\ ~crashed) => notices # <<>>

====
